---- MODULE Spec2Model ----
(***************************************************************************)
(* Model of the health-monitor dashboards' chart refresh loops:            *)
(*   - the cross-ward script   (data_management/assets/js/chart-scripts.js) *)
(*   - the patient vitals page (snippets/patient-vitals-charts.html, 1st   *)
(*     script block)                                                       *)
(*   - the per-ward page       (snippets/patient-vitals-charts.html, 2nd   *)
(*     script block)                                                       *)
(* One behaviour is one page load of one dashboard variant.                *)
(*                                                                         *)
(* Numbers: readings are whole units; axis bounds are kept in tenths of a  *)
(* unit (Scale), so that range * 0.1 and the floor paddings 0.5, 1, 2, 10  *)
(* are exact integers.                                                     *)
(***************************************************************************)
EXTENDS Integers, Sequences, FiniteSets, TLC

VARIABLES
    dash,        \* which dashboard this page is: "cross", "patient", "ward"
    readyState,  \* document.readyState when the cross-ward script is evaluated
    canvases,    \* ids of the <canvas> elements present in the document
    el,          \* the cross-ward page's #chart-data script element
    inst,        \* the chart instance variables (per chart name)
    built,       \* per chart name: how many times new Chart(..) returned
    page,        \* "init", "ready" (load code ran to its end), "crashed"
    listener,    \* renderCharts is registered for DOMContentLoaded, not yet fired
    timerArmed,  \* setInterval has been called
    ticks,       \* number of refresh fetches started so far
    renders,     \* number of later renderCharts() calls made by the page
    inflight,    \* fetches whose promise chain has not finished
    lastApplied, \* id of the tick whose payload was written to a chart last
    lastOp,      \* what the most recent handler was and what it was given
    drawn,       \* per chart: chart.update() calls made by the most recent handler
    logged       \* console diagnostics emitted by the most recent handler

vars == <<dash, readyState, canvases, el, inst, built, page, listener,
          timerArmed, ticks, renders, inflight, lastApplied, lastOp, drawn, logged>>

-----------------------------------------------------------------------------
(* Bounds of the model *)

MaxTicks == 2
MaxRenders == 1
MaxLen == 3

Scale == 10

-----------------------------------------------------------------------------
(* JavaScript values *)

\* an optional reading: <<>> is null/undefined, <<v>> the number v
None == <<>>
Some(v) == <<v>>

\* a property of a payload: an array of optional readings, undefined (the
\* property is missing), or some other truthy value that is not an array
Arr(s) == [kind |-> "array", v |-> s]
Undefined == [kind |-> "undefined", v |-> <<>>]
NotArray == [kind |-> "other", v |-> <<>>]

Dashboards == {"cross", "patient", "ward"}

ChartsOf(d) ==
    IF d = "patient" THEN {"heartRate", "temperature", "oxygen"}
    ELSE {"temperature", "humidity", "noise", "light"}

FieldsOf(d) ==
    CASE d = "cross"   -> {"wards", "temperature", "humidity", "noise", "light_intensity"}
      [] d = "patient" -> {"labels", "heart_rate", "temperature", "oxygen_saturation"}
      [] d = "ward"    -> {"labels", "temperature", "humidity", "noise_level", "light_intensity"}

LabelField(d) == IF d = "cross" THEN "wards" ELSE "labels"

\* the series a chart of a dashboard shows
SeriesOf(d, c) ==
    CASE c = "heartRate"   -> "heart_rate"
      [] c = "temperature" -> "temperature"
      [] c = "oxygen"      -> "oxygen_saturation"
      [] c = "humidity"    -> "humidity"
      [] c = "noise"       -> IF d = "cross" THEN "noise" ELSE "noise_level"
      [] c = "light"       -> "light_intensity"

\* a chart instance variable: live = FALSE is null / undefined; painted is
\* what the canvas shows, the chart's content at its last draw (none yet: <<>>)
NoChart == [live |-> FALSE, labels |-> Undefined, data |-> Undefined,
            ymin |-> None, ymax |-> None, painted |-> <<>>]

\* the content of a chart that a draw puts on the canvas
ViewOf(ch) == [labels |-> ch.labels, data |-> ch.data, ymin |-> ch.ymin, ymax |-> ch.ymax]

\* chart.update(): the canvas is redrawn from the chart's current content
Update(ch) == [ch EXCEPT !.painted = <<ViewOf(ch)>>]

\* new Chart(ctx, config) draws the chart it creates
NewChart(labels, data, ymax) ==
    Update([live |-> TRUE, labels |-> labels, data |-> data, ymin |-> None,
            ymax |-> ymax, painted |-> <<>>])

NoDraw(d) == [c \in ChartsOf(d) |-> 0]

-----------------------------------------------------------------------------
(* Pure helpers of the update routines *)

\* data.x.filter(val => val !== null && val !== undefined)
FilterPresentAsZero(s) == [i \in 1..Len(s) |-> IF s[i] = None THEN Some(0) ELSE s[i]]
FilterPresent(s) == SelectSeq(s, LAMBDA r : r # None)

RECURSIVE MathMin(_)
MathMin(vals) ==
    IF Len(vals) = 1 THEN vals[1][1]
    ELSE LET m == MathMin(Tail(vals))
         IN IF vals[1][1] < m THEN vals[1][1] ELSE m

MathMaxFirst(vals) == vals[1][1]

RECURSIVE MathMax(_)
MathMax(vals) ==
    IF Len(vals) = 1 THEN vals[1][1]
    ELSE LET m == MathMax(Tail(vals))
         IN IF vals[1][1] > m THEN vals[1][1] ELSE m

Max2(a, b) == IF a > b THEN a ELSE b
Min2(a, b) == IF a < b THEN a ELSE b

\* Math.max(floorPad, range * 0.1), in tenths: floorPad is given in tenths
\* and range * 0.1 * Scale = range
PaddingNoFloor(floorPad, range) == range
Padding(floorPad, range) == Max2(floorPad, range)

\* x || []
OrEmpty(x) == IF x.kind = "undefined" THEN Arr(<<>>) ELSE x

-----------------------------------------------------------------------------
(* The .then((data) => ...) callbacks of the patient and per-ward pages *)

\* chart.options.scales.y.min / .max from the present values of a series
\* (Rescale; the three definitions before it are faulty variants of it)
RescaleUnclamped(ch, vals, floorPad, clampLo, clampHi) ==
    IF Len(vals) > 0
    THEN LET lo == MathMin(vals)
             hi == MathMax(vals)
             padding == Padding(floorPad, hi - lo)
         IN [ch EXCEPT !.ymin = Some(Scale * lo - padding),
                       !.ymax = Some(Scale * hi + padding)]
    ELSE ch

RescaleClampSwapped(ch, vals, floorPad, clampLo, clampHi) ==
    IF Len(vals) > 0
    THEN LET lo == MathMin(vals)
             hi == MathMax(vals)
             padding == Padding(floorPad, hi - lo)
             ymin == Scale * lo - padding
             ymax == Scale * hi + padding
         IN [ch EXCEPT !.ymin = Some(IF clampLo THEN Min2(0, ymin) ELSE ymin),
                       !.ymax = Some(IF clampHi THEN Max2(100 * Scale, ymax) ELSE ymax)]
    ELSE ch

RescaleResetting(ch, vals, floorPad, clampLo, clampHi) ==
    IF Len(vals) > 0
    THEN LET lo == MathMin(vals)
             hi == MathMax(vals)
             padding == Padding(floorPad, hi - lo)
             ymin == Scale * lo - padding
             ymax == Scale * hi + padding
         IN [ch EXCEPT !.ymin = Some(IF clampLo THEN Max2(0, ymin) ELSE ymin),
                       !.ymax = Some(IF clampHi THEN Min2(100 * Scale, ymax) ELSE ymax)]
    ELSE [ch EXCEPT !.ymin = None, !.ymax = None]

Rescale(ch, vals, floorPad, clampLo, clampHi) ==
    IF Len(vals) > 0
    THEN LET lo == MathMin(vals)
             hi == MathMax(vals)
             padding == Padding(floorPad, hi - lo)
             ymin == Scale * lo - padding
             ymax == Scale * hi + padding
         IN [ch EXCEPT !.ymin = Some(IF clampLo THEN Max2(0, ymin) ELSE ymin),
                       !.ymax = Some(IF clampHi THEN Min2(100 * Scale, ymax) ELSE ymax)]
    ELSE ch

\* one dynamically scaled chart: labels and data are assigned, then the
\* series is filtered (a TypeError when it is no array), the axis is set and
\* the chart redrawn
DynamicChartDropsAbsent(ch, labels, series, floorPad, clampLo, clampHi) ==
    LET assigned == [ch EXCEPT !.labels = labels,
                               !.data = IF series.kind = "array"
                                        THEN Arr(FilterPresent(series.v)) ELSE series]
    IN IF series.kind # "array"
       THEN [ch |-> assigned, threw |-> TRUE]
       ELSE [ch |-> Update(Rescale(assigned, FilterPresent(series.v),
                                   floorPad, clampLo, clampHi)),
             threw |-> FALSE]

DynamicChartDrawsEarly(ch, labels, series, floorPad, clampLo, clampHi) ==
    LET assigned == [ch EXCEPT !.labels = labels, !.data = series]
    IN IF series.kind # "array"
       THEN [ch |-> assigned, threw |-> TRUE]
       ELSE [ch |-> Rescale(Update(assigned), FilterPresent(series.v),
                            floorPad, clampLo, clampHi),
             threw |-> FALSE]

DynamicChart(ch, labels, series, floorPad, clampLo, clampHi) ==
    LET assigned == [ch EXCEPT !.labels = labels, !.data = series]
    IN IF series.kind # "array"
       THEN [ch |-> assigned, threw |-> TRUE]
       ELSE [ch |-> Update(Rescale(assigned, FilterPresent(series.v),
                                   floorPad, clampLo, clampHi)),
             threw |-> FALSE]

\* patient page: heart rate (fixed axis), temperature, oxygen saturation
PatientThen(I, p) ==
    LET heart == Update([I["heartRate"] EXCEPT !.labels = p["labels"],
                                               !.data = p["heart_rate"]])
        temp == DynamicChart(I["temperature"], p["labels"], p["temperature"],
                             5, FALSE, FALSE)
        oxy == DynamicChart(I["oxygen"], p["labels"], p["oxygen_saturation"],
                            10, TRUE, TRUE)
        I1 == [I EXCEPT !["heartRate"] = heart]
        I2 == [I1 EXCEPT !["temperature"] = temp.ch]
        I3 == [I2 EXCEPT !["oxygen"] = oxy.ch]
        d0 == NoDraw("patient")
    IN IF temp.threw
       THEN [inst |-> I2, drawn |-> [d0 EXCEPT !["heartRate"] = 1], threw |-> TRUE]
       ELSE IF oxy.threw
       THEN [inst |-> I3, drawn |-> [d0 EXCEPT !["heartRate"] = 1, !["temperature"] = 1],
             threw |-> TRUE]
       ELSE [inst |-> I3, drawn |-> [c \in ChartsOf("patient") |-> 1], threw |-> FALSE]

\* per-ward page: temperature, humidity, noise level, light intensity
WardThen(I, p) ==
    LET temp == DynamicChart(I["temperature"], p["labels"], p["temperature"],
                             5, FALSE, FALSE)
        hum == DynamicChart(I["humidity"], p["labels"], p["humidity"],
                            20, TRUE, TRUE)
        noise == DynamicChart(I["noise"], p["labels"], p["noise_level"],
                              20, TRUE, FALSE)
        light == DynamicChart(I["light"], p["labels"], p["light_intensity"],
                              100, TRUE, FALSE)
        I1 == [I EXCEPT !["temperature"] = temp.ch]
        I2 == [I1 EXCEPT !["humidity"] = hum.ch]
        I3 == [I2 EXCEPT !["noise"] = noise.ch]
        I4 == [I3 EXCEPT !["light"] = light.ch]
        d0 == NoDraw("ward")
    IN IF temp.threw
       THEN [inst |-> I1, drawn |-> d0, threw |-> TRUE]
       ELSE IF hum.threw
       THEN [inst |-> I2, drawn |-> [d0 EXCEPT !["temperature"] = 1], threw |-> TRUE]
       ELSE IF noise.threw
       THEN [inst |-> I3, drawn |-> [d0 EXCEPT !["temperature"] = 1, !["humidity"] = 1],
             threw |-> TRUE]
       ELSE IF light.threw
       THEN [inst |-> I4,
             drawn |-> [d0 EXCEPT !["temperature"] = 1, !["humidity"] = 1, !["noise"] = 1],
             threw |-> TRUE]
       ELSE [inst |-> I4, drawn |-> [c \in ChartsOf("ward") |-> 1], threw |-> FALSE]

-----------------------------------------------------------------------------
(* The cross-ward script *)

AllLive(I) == \A c \in DOMAIN I : I[c].live

\* the series value a cross-ward chart is given: noise and light fall back
\* to [] when the property is missing
CrossSeries(c, data) ==
    IF c \in {"noise", "light"} THEN OrEmpty(data[SeriesOf("cross", c)])
    ELSE data[SeriesOf("cross", c)]

\* labels = data.wards; datasets[0].data = data.<series>; update("none"),
\* for each of the four charts
CrossAssign(I, data) ==
    [c \in DOMAIN I |-> Update([I[c] EXCEPT !.labels = data["wards"],
                                            !.data = CrossSeries(c, data)])]

\* JSON.stringify followed by JSON.parse: a property whose value is
\* undefined is left out by stringify and so is undefined again after parse;
\* arrays keep their length, null entries stay null
JsonRoundTrip(p) ==
    [f \in DOMAIN p |->
        IF p[f].kind = "array" THEN Arr([i \in 1..Len(p[f].v) |-> p[f].v[i]])
        ELSE p[f]]

ElAbsent(d) == [kind |-> "absent", json |-> [f \in FieldsOf(d) |-> Undefined]]
ElMalformed(d) == [kind |-> "malformed", json |-> [f \in FieldsOf(d) |-> Undefined]]
ElJson(p) == [kind |-> "json", json |-> p]

\* updateChartData(newData): all four instances or nothing
UpdateChartDataNoWrite(I, e, newData) ==
    IF AllLive(I)
    THEN [inst |-> CrossAssign(I, newData),
          drawn |-> [c \in DOMAIN I |-> 1],
          el |-> e,
          mutated |-> TRUE]
    ELSE [inst |-> I, drawn |-> [c \in DOMAIN I |-> 0], el |-> e, mutated |-> FALSE]

UpdateChartData(I, e, newData) ==
    IF AllLive(I)
    THEN [inst |-> CrossAssign(I, newData),
          drawn |-> [c \in DOMAIN I |-> 1],
          el |-> IF e.kind = "absent" THEN e ELSE ElJson(JsonRoundTrip(newData)),
          mutated |-> TRUE]
    ELSE [inst |-> I, drawn |-> [c \in DOMAIN I |-> 0], el |-> e, mutated |-> FALSE]

\* the four constructions of renderCharts, in order; throws is the set of
\* charts whose new Chart(..) throws. The first two are not guarded: a throw
\* leaves renderCharts. The last two are inside try/catch.
CrossConstruct(I, data, throws) ==
    LET mk(c) == NewChart(data["wards"], CrossSeries(c, data),
                          IF c = "humidity" THEN Some(100 * Scale) ELSE None)
        I1 == [I EXCEPT !["temperature"] = mk("temperature")]
        I2 == [I1 EXCEPT !["humidity"] = mk("humidity")]
        I3 == IF "noise" \in throws THEN I2 ELSE [I2 EXCEPT !["noise"] = mk("noise")]
        I4 == IF "light" \in throws THEN I3 ELSE [I3 EXCEPT !["light"] = mk("light")]
        caught == Cardinality(throws \cap {"noise", "light"})
    IN IF "temperature" \in throws
       THEN [inst |-> I, made |-> {}, threw |-> TRUE, logged |-> 0]
       ELSE IF "humidity" \in throws
       THEN [inst |-> I1, made |-> {"temperature"}, threw |-> TRUE, logged |-> 0]
       ELSE [inst |-> I4, made |-> ChartsOf("cross") \ throws, threw |-> FALSE,
             logged |-> caught]

\* renderCharts()
RenderCharts(I, e, cv, throws) ==
    LET same == [inst |-> I, drawn |-> NoDraw("cross"), made |-> {},
                 threw |-> FALSE, logged |-> 1]
    IN IF e.kind = "absent" THEN same
       ELSE IF e.kind = "malformed" THEN same
       ELSE IF cv # ChartsOf("cross") THEN same
       ELSE IF AllLive(I)
       THEN [inst |-> CrossAssign(I, e.json), drawn |-> [c \in ChartsOf("cross") |-> 1],
             made |-> {}, threw |-> FALSE, logged |-> 0]
       ELSE LET r == CrossConstruct(I, e.json, throws)
            IN [inst |-> r.inst, drawn |-> NoDraw("cross"), made |-> r.made,
                threw |-> r.threw, logged |-> r.logged]

-----------------------------------------------------------------------------
(* initializeCharts() of the patient and per-ward pages *)

PatientOrder == <<"heartRate", "temperature", "oxygen">>
WardOrder == <<"temperature", "humidity", "noise", "light">>

\* document.getElementById(id).getContext("2d") is a TypeError when the
\* canvas is absent; neither it nor new Chart(..) is guarded, so the first
\* failure leaves initializeCharts with the later charts never constructed
RECURSIVE InitializeCharts(_, _, _, _)
InitializeCharts(order, I, cv, throws) ==
    IF order = <<>> THEN [inst |-> I, made |-> {}, threw |-> FALSE]
    ELSE LET c == Head(order)
         IN IF c \notin cv \/ c \in throws
            THEN [inst |-> I, made |-> {}, threw |-> TRUE]
            ELSE LET r == InitializeCharts(Tail(order),
                              [I EXCEPT ![c] = NewChart(Arr(<<>>), Arr(<<>>), None)],
                              cv, throws)
                 IN [inst |-> r.inst, made |-> r.made \cup {c}, threw |-> r.threw]

-----------------------------------------------------------------------------
(* Inputs *)

Readings == {0 - 5, 1, 10, 12, 20, 22, 24, 98, 100, 105}

\* the series the refresh loop is fed
SampleSeries ==
    { <<>>,
      <<None, None>>,
      <<Some(20), Some(22), Some(24)>>,
      <<Some(98), Some(100)>>,
      <<Some(10), None, Some(12)>> }

Labels(n) == Arr([i \in 1..n |-> Some(i)])

\* a well-formed payload whose series all are s
Payload(d, s) ==
    [f \in FieldsOf(d) |-> IF f = LabelField(d) THEN Labels(Len(s)) ELSE Arr(s)]

\* a payload in which one property is missing or is not an array
Damaged(p, f, how) == [p EXCEPT ![f] = how]

Payloads(d) ==
    { Payload(d, s) : s \in SampleSeries }
    \cup { Damaged(Payload(d, s), f, how) :
             s \in {<<Some(98), Some(100)>>}, f \in FieldsOf(d) \ {LabelField(d)},
             how \in {Undefined, NotArray} }

\* the claim's notion of a malformed object payload: a series the dashboard
\* reads is missing or is not an array
Malformed(d, p) == \E c \in ChartsOf(d) : p[SeriesOf(d, c)].kind # "array"

-----------------------------------------------------------------------------
(* Page state *)

Fetch(id) == [id |-> id, stage |-> "fetch", ok |-> TRUE]

\* what a handler was: kind, the response status it saw, why it ended in the catch block, which constructors threw, and the
\* parsed payload it was handed (at most one)
Op(kind, ok, cause, throws, arg) ==
    [kind |-> kind, ok |-> ok, cause |-> cause, throws |-> throws, arg |-> arg]

\* new Chart(..) belongs to the charting library, which is not part of the
\* repository: a call either returns a chart or throws, and at most one
\* constructor call of a handler throws
ThrowChoices(d) == {{}} \cup {{c} : c \in ChartsOf(d)}

\* renderCharts() gets as far as its constructor calls
Constructs(I, e, cv) == e.kind = "json" /\ cv = ChartsOf("cross") /\ ~AllLive(I)

RenderThrows(I, e, cv) == IF Constructs(I, e, cv) THEN ThrowChoices("cross") ELSE {{}}

Count(b, made) == [c \in DOMAIN b |-> IF c \in made THEN b[c] + 1 ELSE b[c]]

Init ==
    /\ dash \in Dashboards
    /\ readyState \in (IF dash = "cross" THEN {"loading", "complete"} ELSE {"loading"})
    /\ canvases \in {ChartsOf(dash)} \cup {ChartsOf(dash) \ {c} : c \in ChartsOf(dash)}
    /\ el \in (IF dash = "cross"
               THEN {ElAbsent(dash), ElMalformed(dash),
                     ElJson(Payload(dash, <<Some(20), Some(22), Some(24)>>))}
               ELSE {ElAbsent(dash)})
    /\ inst = [c \in ChartsOf(dash) |-> NoChart]
    /\ built = [c \in ChartsOf(dash) |-> 0]
    /\ page = "init"
    /\ listener = FALSE
    /\ timerArmed = FALSE
    /\ ticks = 0
    /\ renders = 0
    /\ inflight = {}
    /\ lastApplied = 0
    /\ lastOp = Op("none", TRUE, "none", {}, <<>>)
    /\ drawn = NoDraw(dash)
    /\ logged = 0

-----------------------------------------------------------------------------
(* Page load *)

\* chart-scripts.js is evaluated: renderCharts runs now or is registered for
\* DOMContentLoaded, then setInterval is called. An exception that escapes
\* renderCharts() at top level ends the script before setInterval.
LoadCross ==
    /\ dash = "cross" /\ page = "init"
    /\ IF readyState = "loading"
       THEN /\ listener' = TRUE
            /\ timerArmed' = TRUE
            /\ page' = "ready"
            /\ lastOp' = Op("script", TRUE, "none", {}, <<>>)
            /\ logged' = 0
            /\ UNCHANGED <<inst, built, drawn>>
       ELSE \E throws \in RenderThrows(inst, el, canvases) :
              LET r == RenderCharts(inst, el, canvases, throws)
              IN /\ inst' = r.inst
                 /\ built' = Count(built, r.made)
                 /\ drawn' = r.drawn
                 /\ logged' = r.logged
                 /\ page' = IF r.threw THEN "crashed" ELSE "ready"
                 /\ timerArmed' = ~r.threw
                 /\ lastOp' = Op("render", TRUE,
                                 IF r.threw THEN "uncaught" ELSE "none", throws, <<>>)
                 /\ UNCHANGED listener
    /\ UNCHANGED <<dash, readyState, canvases, el, ticks, renders, inflight, lastApplied>>

\* DOMContentLoaded fires the registered renderCharts
DomContentLoaded ==
    /\ dash = "cross" /\ listener
    /\ \E throws \in RenderThrows(inst, el, canvases) :
         LET r == RenderCharts(inst, el, canvases, throws)
         IN /\ inst' = r.inst
            /\ built' = Count(built, r.made)
            /\ drawn' = r.drawn
            /\ logged' = r.logged
            /\ lastOp' = Op("render", TRUE,
                            IF r.threw THEN "uncaught" ELSE "none", throws, <<>>)
    /\ listener' = FALSE
    /\ UNCHANGED <<dash, readyState, canvases, el, page, timerArmed, ticks, renders,
                   inflight, lastApplied>>

\* a call of the global renderCharts() by the page, at any time after the
\* script has been evaluated (before or after the DOMContentLoaded listener)
RenderChartsCall ==
    /\ dash = "cross" /\ page # "init"
    /\ renders < MaxRenders
    /\ \E throws \in RenderThrows(inst, el, canvases) :
         LET r == RenderCharts(inst, el, canvases, throws)
         IN /\ inst' = r.inst
            /\ built' = Count(built, r.made)
            /\ drawn' = r.drawn
            /\ logged' = r.logged
            /\ lastOp' = Op("render", TRUE,
                            IF r.threw THEN "uncaught" ELSE "none", throws, <<>>)
    /\ renders' = renders + 1
    /\ UNCHANGED <<dash, readyState, canvases, el, page, listener, timerArmed, ticks,
                   inflight, lastApplied>>

\* the DOMContentLoaded handler of the patient / per-ward page:
\* initializeCharts(); updateCharts(); setInterval(updateCharts, ..)
LoadPage(d, order) ==
    /\ dash = d /\ page = "init"
    /\ \E throws \in ThrowChoices(d) :
         LET r == InitializeCharts(order, inst, canvases, throws)
         IN /\ inst' = r.inst
            /\ built' = Count(built, r.made)
            /\ page' = IF r.threw THEN "crashed" ELSE "ready"
            /\ timerArmed' = ~r.threw
            /\ ticks' = IF r.threw THEN 0 ELSE 1
            /\ inflight' = IF r.threw THEN {} ELSE {Fetch(1)}
            /\ lastOp' = Op("load", TRUE,
                            IF r.threw THEN "uncaught" ELSE "none", throws, <<>>)
    /\ drawn' = NoDraw(d)
    /\ logged' = 0
    /\ UNCHANGED <<dash, readyState, canvases, el, listener, renders, lastApplied>>

LoadPatient == LoadPage("patient", PatientOrder)

LoadWard == LoadPage("ward", WardOrder)

-----------------------------------------------------------------------------
(* The refresh loop *)

\* the interval timer fires: fetchAndUpdateCharts() / updateCharts() starts
\* a fetch. Nothing looks at whether an earlier fetch is still pending.
Tick ==
    /\ timerArmed
    /\ ticks < MaxTicks
    /\ ticks' = ticks + 1
    /\ inflight' = inflight \cup {Fetch(ticks + 1)}
    /\ lastOp' = Op("tick", TRUE, "none", {}, <<>>)
    /\ drawn' = NoDraw(dash)
    /\ logged' = 0
    /\ UNCHANGED <<dash, readyState, canvases, el, inst, built, page, listener,
                   timerArmed, renders, lastApplied>>

\* where a settled fetch goes: a rejection goes to the catch block; the
\* cross-ward script throws on !response.ok, the two pages call
\* response.json() whatever the status
OnSettled(d, outcome) ==
    IF outcome = "reject" THEN "catch"
    ELSE IF d = "cross" /\ outcome = "notok" THEN "catch"
    ELSE "json"

\* the catch block: console.error only, the charts are as they were
CatchClearing(I) ==
    [c \in DOMAIN I |-> IF I[c].live THEN [I[c] EXCEPT !.data = Arr(<<>>)] ELSE I[c]]
Catch(I) == I

FetchSettles(f, outcome) ==
    /\ f \in inflight /\ f.stage = "fetch"
    /\ IF OnSettled(dash, outcome) = "catch"
       THEN /\ inflight' = inflight \ {f}
            /\ inst' = Catch(inst)
            /\ logged' = 1
            /\ lastOp' = Op("catch", outcome # "notok",
                            IF outcome = "reject" THEN "network" ELSE "status", {}, <<>>)
       ELSE /\ inflight' = (inflight \ {f})
                              \cup {[f EXCEPT !.stage = "json", !.ok = (outcome = "ok")]}
            /\ inst' = inst
            /\ logged' = 0
            /\ lastOp' = Op("response", outcome = "ok", "none", {}, <<>>)
    /\ drawn' = NoDraw(dash)
    /\ UNCHANGED <<dash, readyState, canvases, el, built, page, listener, timerArmed,
                   ticks, renders, lastApplied>>

FetchSettle == \E f \in inflight : \E outcome \in {"reject", "ok", "notok"} :
                  FetchSettles(f, outcome)

\* response.json() rejects: the body is not valid JSON
BodyInvalid ==
    \E f \in inflight :
      /\ f.stage = "json"
      /\ inflight' = inflight \ {f}
      /\ inst' = Catch(inst)
      /\ logged' = 1
      /\ drawn' = NoDraw(dash)
      /\ lastOp' = Op("catch", f.ok, "parse", {}, <<>>)
      /\ UNCHANGED <<dash, readyState, canvases, el, built, page, listener, timerArmed,
                     ticks, renders, lastApplied>>

\* what the dashboard does with a parsed object payload
Apply(d, I, e, p) ==
    CASE d = "cross" ->
           LET r == UpdateChartData(I, e, p)
           IN [inst |-> r.inst, drawn |-> r.drawn, el |-> r.el, threw |-> FALSE,
               mutated |-> r.mutated]
      [] d = "patient" ->
           LET r == PatientThen(I, p)
           IN [inst |-> r.inst, drawn |-> r.drawn, el |-> e, threw |-> r.threw,
               mutated |-> TRUE]
      [] d = "ward" ->
           LET r == WardThen(I, p)
           IN [inst |-> r.inst, drawn |-> r.drawn, el |-> e, threw |-> r.threw,
               mutated |-> TRUE]

\* response.json() resolves with an object: updateChartData(newData) / the
\* .then((data) => ..) callback runs; a TypeError inside it is caught and logged
Applies(f, p) ==
    /\ f \in inflight /\ f.stage = "json"
    /\ LET r == Apply(dash, inst, el, p)
       IN /\ inst' = r.inst
          /\ drawn' = r.drawn
          /\ el' = r.el
          /\ logged' = IF r.threw THEN 1 ELSE 0
          /\ lastApplied' = IF r.mutated THEN f.id ELSE lastApplied
          /\ lastOp' = Op("then", f.ok, IF r.threw THEN "type" ELSE "none",
                          {}, <<p>>)
    /\ inflight' = inflight \ {f}
    /\ UNCHANGED <<dash, readyState, canvases, built, page, listener, timerArmed,
                   ticks, renders>>

BodyApplied == \E f \in inflight : \E p \in Payloads(dash) : Applies(f, p)

Next ==
    \/ LoadCross
    \/ DomContentLoaded
    \/ RenderChartsCall
    \/ LoadPatient
    \/ LoadWard
    \/ Tick
    \/ FetchSettle
    \/ BodyInvalid
    \/ BodyApplied

Spec == Init /\ [][Next]_vars

-----------------------------------------------------------------------------
(* A single application of every payload shape up to MaxLen readings: the   *)
(* patient or per-ward page has loaded, its first response has arrived and  *)
(* response.json() is pending.                                              *)

OptReadings == {None} \cup {Some(v) : v \in Readings}

AllSeries == UNION {[1..n -> OptReadings] : n \in 0..MaxLen}

RangeInit ==
    /\ dash \in {"patient", "ward"}
    /\ readyState = "loading"
    /\ canvases = ChartsOf(dash)
    /\ el = ElAbsent(dash)
    /\ inst = InitializeCharts(IF dash = "patient" THEN PatientOrder ELSE WardOrder,
                               [c \in ChartsOf(dash) |-> NoChart], canvases, {}).inst
    /\ built = [c \in ChartsOf(dash) |-> 1]
    /\ page = "ready"
    /\ listener = FALSE
    /\ timerArmed = TRUE
    /\ ticks = 1
    /\ renders = 0
    /\ inflight = {[Fetch(1) EXCEPT !.stage = "json"]}
    /\ lastApplied = 0
    /\ lastOp = Op("response", TRUE, "none", {}, <<>>)
    /\ drawn = NoDraw(dash)
    /\ logged = 0

RangeApplied == \E f \in inflight : \E s \in AllSeries : Applies(f, Payload(dash, s))

SpecRange == RangeInit /\ [][RangeApplied]_vars

-----------------------------------------------------------------------------
(* Properties *)

\* a step in which a promise chain ended or moved on
HandlerStep == inflight' # inflight

Live(c) == inst[c].live

\* the present readings of a chart's data, as a set of numbers
PresentOf(ch) ==
    IF ch.data.kind = "array"
    THEN {ch.data.v[i][1] : i \in {j \in 1..Len(ch.data.v) : ch.data.v[j] # None}}
    ELSE {}

\* C1: at every moment at most one fetch of the dashboard is in flight (a
\* tick that fires while an earlier fetch is pending starts no second fetch).
C1_AtMostOneFetchInFlight == Cardinality(inflight) <= 1

\* C2: payloads are applied in the order their ticks fired: the tick whose
\* payload is written to the charts never is an earlier one than the tick
\* whose payload was written before.
C2_AppliedInTickOrder == [][lastApplied' >= lastApplied]_vars

\* C3: the handler of a rejected fetch (network error) leaves every chart
\* (labels, values, axis bounds) as it was and triggers no redraw.
C3_RejectedFetchKeepsCharts ==
    [][(HandlerStep /\ lastOp'.kind = "catch" /\ lastOp'.cause = "network")
          => (inst' = inst /\ drawn' = NoDraw(dash))]_vars

\* C3 witness: a rejected fetch has been handled on a page whose charts
\* show data.
C3_Witness ==
    /\ lastOp.kind = "catch" /\ lastOp.cause = "network"
    /\ \E c \in ChartsOf(dash) : Live(c) /\ PresentOf(inst[c]) # {}

\* C4: in every dashboard, the handlers of a response with a non-success
\* status apply nothing (the charts are as they were, none is redrawn) and
\* log the error.
C4_NonSuccessNeverApplied ==
    [][(HandlerStep /\ lastOp'.kind \in {"then", "catch"} /\ ~lastOp'.ok)
          => (inst' = inst /\ drawn' = NoDraw(dash) /\ logged' = 1)]_vars

\* C5: a tick whose payload is malformed (invalid JSON, or an object in
\* which a series the dashboard reads is missing or no array) mutates no
\* chart.
C5_MalformedPayloadMutatesNothing ==
    [][(HandlerStep /\ (\/ (lastOp'.kind = "catch" /\ lastOp'.cause = "parse")
                        \/ (lastOp'.kind = "then" /\ Malformed(dash, lastOp'.arg[1]))))
          => inst' = inst]_vars

\* C6: after a network error, a parse error, or an initialization that found
\* a display surface absent (no constructor having thrown), the refresh
\* timer is armed, so that the next tick fires.
C6_RefreshLoopSurvives ==
    (\/ lastOp.kind = "catch"
     \/ (lastOp.kind \in {"load", "render"} /\ lastOp.throws = {}
           /\ canvases # ChartsOf(dash)))
      => timerArmed

\* C7: no chart is constructed a second time for the same display surface.
C7_ChartCreatedOnce == \A c \in ChartsOf(dash) : built[c] <= 1

\* C8: an initialization that finds one display surface absent (the page's
\* chart data being readable and no constructor throwing) does not throw and
\* constructs a chart for every display surface that exists.
C8_MissingCanvasSkipsOnlyThatBinding ==
    (/\ lastOp.kind \in {"load", "render"} /\ lastOp.throws = {}
     /\ canvases # ChartsOf(dash)
     /\ (dash = "cross" => el.kind = "json"))
      => (lastOp.cause # "uncaught" /\ \A c \in canvases : Live(c))

\* C9: an apply of a well-formed payload gives every initialized chart the
\* payload's labels and values, also when other charts of the dashboard are
\* not initialized, and leaves the uninitialized ones untouched.
C9_ApplyReachesEveryInitializedChart ==
    [][(HandlerStep /\ lastOp'.kind = "then" /\ ~Malformed(dash, lastOp'.arg[1]))
          => \A c \in ChartsOf(dash) :
               IF Live(c)
               THEN /\ inst'[c].labels = lastOp'.arg[1][LabelField(dash)]
                    /\ inst'[c].data = lastOp'.arg[1][SeriesOf(dash, c)]
               ELSE inst'[c] = inst[c]]_vars

\* C10: on the patient and per-ward pages, whenever the temperature chart
\* shows at least one present value, its axis bounds are min - pad and
\* max + pad over the present values, pad = max(0.5, (max - min) * 0.1);
\* values [20, 22, 24] give [19.5, 24.5]. (Bounds in tenths.)
C10_TemperatureBounds ==
    (dash \in {"patient", "ward"} /\ Live("temperature"))
      => LET ch == inst["temperature"]
             present == PresentOf(ch)
         IN /\ present # {} =>
                 \E lo \in present, hi \in present :
                    /\ \A v \in present : lo <= v /\ v <= hi
                    /\ LET pad == IF hi - lo > 5 THEN hi - lo ELSE 5
                       IN /\ ch.ymin = Some(10 * lo - pad)
                          /\ ch.ymax = Some(10 * hi + pad)
            /\ ch.data = Arr(<<Some(20), Some(22), Some(24)>>)
                 => (ch.ymin = Some(195) /\ ch.ymax = Some(245))

\* C10 witness: the temperature chart has been given [20, 22, 24] and shows
\* the bounds [19.5, 24.5].
C10_Witness ==
    /\ dash \in {"patient", "ward"}
    /\ lastOp.kind = "then"
    /\ inst["temperature"].data = Arr(<<Some(20), Some(22), Some(24)>>)
    /\ inst["temperature"].ymin = Some(195)
    /\ inst["temperature"].ymax = Some(245)

-----------------------------------------------------------------------------
(* Properties of the dynamic range *)

\* least and greatest element of a non-empty set of numbers
Least(S) == CHOOSE m \in S : \A v \in S : m <= v
Greatest(S) == CHOOSE m \in S : \A v \in S : v <= m

\* the per-series floor padding in tenths: 0.5 for temperature, 1 for oxygen
\* saturation, 2 for humidity and noise level, 10 for light intensity
FloorPadOf(c) ==
    CASE c = "temperature" -> 5
      [] c = "oxygen"      -> 10
      [] c = "humidity"    -> 20
      [] c = "noise"       -> 20
      [] c = "light"       -> 100

\* pad = max(floorPad, (max - min) * 0.1) over the present values S, in tenths
PadOf(c, S) ==
    IF Greatest(S) - Least(S) > FloorPadOf(c) THEN Greatest(S) - Least(S)
    ELSE FloorPadOf(c)

\* min - pad and max + pad over the present values S, in tenths
LowOf(c, S) == 10 * Least(S) - PadOf(c, S)
HighOf(c, S) == 10 * Greatest(S) + PadOf(c, S)

\* the charts with a dynamic axis
DynamicCharts(d) ==
    CASE d = "patient" -> {"temperature", "oxygen"}
      [] d = "ward"    -> {"temperature", "humidity", "noise", "light"}
      [] d = "cross"   -> {}

PercentCharts(d) == DynamicCharts(d) \cap {"oxygen", "humidity"}

\* C11 (as claimed): on the per-ward page the noise-level and light-intensity
\* charts that show at least one present value have the axis bounds
\* min - pad and max + pad, neither of them clamped.
C11_NoiseLightUnclamped ==
    dash = "ward" =>
      \A c \in {"noise", "light"} :
        (Live(c) /\ PresentOf(inst[c]) # {}) =>
           /\ inst[c].ymin = Some(LowOf(c, PresentOf(inst[c])))
           /\ inst[c].ymax = Some(HighOf(c, PresentOf(inst[c])))

\* C11 (amended): on the per-ward page the noise-level and light-intensity
\* charts that show at least one present value have the upper bound
\* max + pad, unclamped, and the lower bound max(0, min - pad).
C11_NoiseLightLowerClamped ==
    dash = "ward" =>
      \A c \in {"noise", "light"} :
        (Live(c) /\ PresentOf(inst[c]) # {}) =>
           LET low == LowOf(c, PresentOf(inst[c]))
           IN /\ inst[c].ymin = Some(IF low < 0 THEN 0 ELSE low)
              /\ inst[c].ymax = Some(HighOf(c, PresentOf(inst[c])))

\* C11 witness: the noise chart was given the single reading 1 dB; its
\* lower bound is 0 (1 - 2 clamped), its upper bound 3.
C11_Witness ==
    /\ dash = "ward" /\ lastOp.kind = "then"
    /\ inst["noise"].data = Arr(<<Some(1)>>)
    /\ inst["noise"].ymin = Some(0)
    /\ inst["noise"].ymax = Some(30)

\* C12 (as claimed): a percentage chart (humidity, oxygen saturation) that
\* shows at least one present value has the lower bound max(0, min - pad)
\* and the upper bound min(100, max + pad), and both bounds lie within
\* [0, 100]; humidity [98, 100] has the upper bound 100.
C12_PercentBoundsWithin ==
    \A c \in PercentCharts(dash) :
      (Live(c) /\ PresentOf(inst[c]) # {}) =>
         LET low == LowOf(c, PresentOf(inst[c]))
             high == HighOf(c, PresentOf(inst[c]))
         IN /\ inst[c].ymin = Some(IF low < 0 THEN 0 ELSE low)
            /\ inst[c].ymax = Some(IF high > 1000 THEN 1000 ELSE high)
            /\ 0 <= inst[c].ymin[1] /\ inst[c].ymin[1] <= 1000
            /\ 0 <= inst[c].ymax[1] /\ inst[c].ymax[1] <= 1000
            /\ (c = "humidity" /\ inst[c].data = Arr(<<Some(98), Some(100)>>))
                 => inst[c].ymax = Some(1000)

\* C12 (amended): a percentage chart that shows at least one present value
\* has the lower bound max(0, min - pad) and the upper bound
\* min(100, max + pad); both bounds lie within [0, 100] when every present
\* reading does; humidity [98, 100] has the upper bound 100.
C12_PercentBounds ==
    \A c \in PercentCharts(dash) :
      (Live(c) /\ PresentOf(inst[c]) # {}) =>
         LET low == LowOf(c, PresentOf(inst[c]))
             high == HighOf(c, PresentOf(inst[c]))
         IN /\ inst[c].ymin = Some(IF low < 0 THEN 0 ELSE low)
            /\ inst[c].ymax = Some(IF high > 1000 THEN 1000 ELSE high)
            /\ (\A v \in PresentOf(inst[c]) : 0 <= v /\ v <= 100)
                 => /\ 0 <= inst[c].ymin[1] /\ inst[c].ymin[1] <= 1000
                    /\ 0 <= inst[c].ymax[1] /\ inst[c].ymax[1] <= 1000
            /\ (c = "humidity" /\ inst[c].data = Arr(<<Some(98), Some(100)>>))
                 => inst[c].ymax = Some(1000)

\* C12 witness: the humidity chart was given [98, 100]; its upper bound is
\* clamped to 100, its lower bound is 96.
C12_Witness ==
    /\ dash = "ward" /\ lastOp.kind = "then"
    /\ inst["humidity"].data = Arr(<<Some(98), Some(100)>>)
    /\ inst["humidity"].ymin = Some(960)
    /\ inst["humidity"].ymax = Some(1000)

\* a series without its absent readings
RECURSIVE Strip(_)
Strip(s) ==
    IF s = <<>> THEN <<>>
    ELSE IF Head(s) = None THEN Strip(Tail(s))
    ELSE <<Head(s)>> \o Strip(Tail(s))

\* a payload with the absent readings of every series removed
Stripped(d, p) ==
    [f \in DOMAIN p |->
        IF f # LabelField(d) /\ p[f].kind = "array" THEN Arr(Strip(p[f].v)) ELSE p[f]]

\* the charts of a page right after initializeCharts()
FreshCharts(d) ==
    InitializeCharts(IF d = "patient" THEN PatientOrder ELSE WardOrder,
                     [c \in ChartsOf(d) |-> NoChart], ChartsOf(d), {}).inst

\* C13: the bounds an apply computes for a payload with absent readings are
\* the bounds it computes for the same payload with those readings removed;
\* [10, null, 12] gives the temperature range of [10, 12], i.e. [9.5, 12.5].
C13_AbsentReadingsIgnored ==
    (dash \in {"patient", "ward"} /\ lastOp.kind = "then") =>
       LET r == Apply(dash, FreshCharts(dash), el, Stripped(dash, lastOp.arg[1]))
       IN /\ \A c \in DynamicCharts(dash) :
               /\ inst[c].ymin = r.inst[c].ymin
               /\ inst[c].ymax = r.inst[c].ymax
          /\ inst["temperature"].data = Arr(<<Some(10), None, Some(12)>>)
               => (inst["temperature"].ymin = Some(95)
                     /\ inst["temperature"].ymax = Some(125))

\* C13 witness: the temperature chart was given [10, null, 12] and has the
\* bounds of [10, 12].
C13_Witness ==
    /\ dash \in {"patient", "ward"} /\ lastOp.kind = "then"
    /\ inst["temperature"].data = Arr(<<Some(10), None, Some(12)>>)
    /\ inst["temperature"].ymin = Some(95)
    /\ inst["temperature"].ymax = Some(125)

\* no present reading in a payload property
AllAbsent(x) == x.kind = "array" /\ \A i \in 1..Len(x.v) : x.v[i] = None

\* C14: an apply whose series for a dynamic chart is empty or all absent
\* leaves that chart's axis bounds as they were before the call.
C14_AllAbsentKeepsBounds ==
    [][(HandlerStep /\ lastOp'.kind = "then" /\ dash \in {"patient", "ward"})
          => \A c \in DynamicCharts(dash) :
               AllAbsent(lastOp'.arg[1][SeriesOf(dash, c)])
                 => (inst'[c].ymin = inst[c].ymin /\ inst'[c].ymax = inst[c].ymax)]_vars

\* C14 witness: an all-absent temperature series has been applied to a
\* chart whose bounds an earlier payload had set.
C14_Witness ==
    /\ dash \in {"patient", "ward"} /\ lastOp.kind = "then"
    /\ inst["temperature"].data = Arr(<<None, None>>)
    /\ inst["temperature"].ymin # None
    /\ inst["temperature"].ymax # None

-----------------------------------------------------------------------------
(* Properties of apply *)

\* every series the dashboard reads has as many entries as there are labels
Aligned(d, p) ==
    /\ p[LabelField(d)].kind = "array"
    /\ \A c \in ChartsOf(d) :
         /\ p[SeriesOf(d, c)].kind = "array"
         /\ Len(p[SeriesOf(d, c)].v) = Len(p[LabelField(d)].v)

\* the handler just run was an apply that reached the charts: the .then
\* callback of a page, or updateChartData with all four instances present
ApplyStep ==
    /\ HandlerStep /\ lastOp'.kind = "then"
    /\ (dash = "cross" => \A c \in ChartsOf(dash) : Live(c))

\* C15: after an apply of a payload whose series all have the length of the
\* label sequence, each chart's values have exactly as many entries as its
\* labels, the absent readings kept in place.
C15_ValuesStayAligned ==
    [][(ApplyStep /\ Aligned(dash, lastOp'.arg[1]))
          => \A c \in ChartsOf(dash) :
               /\ inst'[c].data.kind = "array" /\ inst'[c].labels.kind = "array"
               /\ Len(inst'[c].data.v) = Len(inst'[c].labels.v)
               /\ \A i \in 1..Len(inst'[c].data.v) :
                    inst'[c].data.v[i] = lastOp'.arg[1][SeriesOf(dash, c)].v[i]]_vars

\* C15 witness: [10, null, 12] has been applied under three labels and the
\* temperature chart holds three values, the absent one in the middle.
C15_Witness ==
    /\ lastOp.kind = "then"
    /\ Live("temperature")
    /\ inst["temperature"].labels.kind = "array"
    /\ Len(inst["temperature"].labels.v) = 3
    /\ inst["temperature"].data = Arr(<<Some(10), None, Some(12)>>)

\* C16: a successful apply redraws each chart of the dashboard exactly once,
\* and after the chart's labels, values and bounds have been set: what the
\* canvas shows is the chart's final content.
C16_OneRedrawAfterMutations ==
    [][(ApplyStep /\ lastOp'.cause = "none")
          => \A c \in ChartsOf(dash) :
               /\ drawn'[c] = 1
               /\ inst'[c].painted = <<ViewOf(inst'[c])>>]_vars

\* C16 witness: a successful apply has set the bounds of the per-ward
\* temperature chart and redrawn every chart once.
C16_Witness ==
    /\ dash = "ward" /\ lastOp.kind = "then" /\ lastOp.cause = "none"
    /\ \A c \in ChartsOf(dash) : drawn[c] = 1
    /\ inst["temperature"].ymin # None
    /\ inst["temperature"].painted = <<ViewOf(inst["temperature"])>>

\* the axis of a chart is well-formed and contains the present values S
Contains(ch, S) ==
    /\ ch.ymin # None /\ ch.ymax # None
    /\ ch.ymin[1] < ch.ymax[1]
    /\ \A v \in S : ch.ymin[1] <= 10 * v /\ 10 * v <= ch.ymax[1]

\* the readings a series can take in its unit: a percentage lies in
\* [0, 100], a noise level or light intensity is not negative
InUnit(c, S) ==
    CASE c \in {"oxygen", "humidity"} -> \A v \in S : 0 <= v /\ v <= 100
      [] c \in {"noise", "light"}     -> \A v \in S : 0 <= v
      [] OTHER                         -> TRUE

\* C17 (as claimed): a dynamic chart that shows at least one present value,
\* whatever the numbers, has lower bound < upper bound and every present
\* value within the bounds.
C17_BoundsContainData ==
    \A c \in DynamicCharts(dash) :
      (Live(c) /\ PresentOf(inst[c]) # {}) => Contains(inst[c], PresentOf(inst[c]))

\* C17 (amended): a dynamic chart that shows at least one present value has
\* lower bound < upper bound and every present value within the bounds,
\* when the readings lie in the range the chart's clamps allow (percentages
\* in [0, 100], noise and light not negative, any temperature).
C17_BoundsContainDataInUnit ==
    \A c \in DynamicCharts(dash) :
      (Live(c) /\ PresentOf(inst[c]) # {} /\ InUnit(c, PresentOf(inst[c])))
         => Contains(inst[c], PresentOf(inst[c]))

\* C17 witness: the oxygen chart was given the single reading 100; its
\* bounds are [99, 100].
C17_Witness ==
    /\ dash = "patient" /\ lastOp.kind = "then"
    /\ inst["oxygen"].data = Arr(<<Some(100)>>)
    /\ inst["oxygen"].ymin = Some(990)
    /\ inst["oxygen"].ymax = Some(1000)

\* C18: on the cross-ward page, updateChartData writes the payload into the
\* chart-data element exactly when it mutates the charts, and a renderCharts
\* call right after a successful updateChartData leaves every chart's
\* labels and values as updateChartData set them.
C18_ChartDataElementConsistent ==
    [][/\ (HandlerStep /\ lastOp'.kind = "then" /\ dash = "cross")
          => IF \A c \in ChartsOf(dash) : Live(c)
             THEN el' = ElJson(lastOp'.arg[1])
             ELSE el' = el /\ inst' = inst
       /\ (/\ dash = "cross" /\ lastOp.kind = "then"
           /\ \A c \in ChartsOf(dash) : drawn[c] = 1
           /\ renders' = renders + 1)
          => \A c \in ChartsOf(dash) :
               /\ inst'[c].labels = inst[c].labels
               /\ inst'[c].data = inst[c].data]_vars

\* C18 witness: updateChartData has replaced the data of all four charts
\* and the chart-data element holds that payload, which is not the one the
\* page was rendered with.
C18_Witness ==
    /\ dash = "cross" /\ lastOp.kind = "then"
    /\ \A c \in ChartsOf(dash) : drawn[c] = 1
    /\ el = ElJson(lastOp.arg[1])
    /\ inst["temperature"].data = Arr(<<Some(98), Some(100)>>)
    /\ renders < MaxRenders

====
